---- MODULE Spec2Model ----
(***************************************************************************)
(* Model of the resumable opening-tree analysis of src/OpeningAnalyze.py:  *)
(* LichessStockfishAnalyzer.analyze_position_recursive with its checkpoint *)
(* (load_progress / save_progress), the popularity oracle                  *)
(* (get_lichess_moves) and the evaluator (get_best_response).              *)
(*                                                                         *)
(* The recursion is an explicit stack of frames.  A step of the model is   *)
(* the code between two points at which the process can be killed with a   *)
(* different outcome: a blocking call to a collaborator, the update of the *)
(* in-memory state, the opening (truncation) of progress.json and the end  *)
(* of its writing.                                                         *)
(***************************************************************************)
EXTENDS Integers, Sequences, FiniteSets, TLC

VARIABLES
    world,                \* the collaborators' behaviour: Lichess data and Stockfish replies
    mainpc,               \* position of the process in main(): init, analyze, write, done, killed, failed (ended by an exception)
    stack,                \* the active calls of analyze_position_recursive, outermost first
    analyzed_positions,   \* self.analyzed_positions: cache key -> best response
    fully_explored_fens,  \* self.fully_explored_fens
    variation_counter,    \* self.variation_counter
    all_variations,       \* self.all_variations
    progress_file,        \* the content of progress.json on disk
    runs,                 \* number of processes started so far
    failures,             \* number of failed Lichess requests so far
    phase,                \* "ref": the uninterrupted reference run; "live": runs that may be killed
    refFinal,             \* the state in which the reference run ended
    h_run,                \* history of the current run: calls issued, state loaded, engine processes started and quit, the error that ended it
    h_ever                \* history across runs, kept when h_ever.on: evaluator calls, positions marked explored, values first stored; when h_ever.failed_on: positions saved as explored after a failed request

vars == <<world, mainpc, stack, analyzed_positions, fully_explored_fens,
          variation_counter, all_variations, progress_file, runs, failures,
          phase, refFinal, h_run, h_ever>>

memory == <<analyzed_positions, fully_explored_fens, variation_counter, all_variations>>

----------------------------------------------------------------------------
(* Bounds of the model *)

MaxRuns == 3              \* processes started in one behaviour
MaxPly == 4               \* plies below the root from which the database has no games
MaxOracleFailures == 1    \* failed Lichess requests in one behaviour

(* Constants of the program *)

MIN_GAMES == 500
TOP_N == 5

----------------------------------------------------------------------------
(* The rules engine: positions and moves *)

\* board.fen() of the position `ply` plies below the starting position; the
\* second component identifies the placement, so that different move orders
\* reaching the same board give the same FEN (a transposition).
Fen(ply, id) == <<ply, id>>

Root == Fen(0, 0)

RootHistory == <<"Nf3", "d5", "g3">>

Legal == {"a", "b", "x", "y"}

MoveValue(uci) == CASE uci = "a" -> 0
                    [] uci = "b" -> 1
                    [] uci = "x" -> 0
                    [] uci = "y" -> 1

\* chess.Move.from_uci raises on a malformed move string
FromUciRaises(uci) == uci \notin Legal

\* temp_board.push(move); temp_board.fen()
Push(fen, uci) == Fen(fen[1] + 1, fen[2] + MoveValue(uci))

----------------------------------------------------------------------------
(* The collaborators *)

Raw(u, s, w, d, b) == [uci |-> u, san |-> s, white |-> w, draws |-> d, black |-> b]

RawA == Raw("a", "A", 400, 300, 300)
RawB == Raw("b", "B", 300, 200, 300)
RawC == Raw("c", "C", 100, 50, 50)
RawZ == Raw("zz", "Z", 300, 300, 300)

IdClasses == 3

\* A world gives the 'moves' list of the Lichess response per placement class
\* and Stockfish's reply to each candidate move ("none": result.move is None
\* or the engine raised).
Worlds ==
    { [data |-> [c \in 0..(IdClasses - 1) |-> <<RawA, RawB, RawC>>],
       best |-> [u \in {"a", "b"} |-> IF u = "a" THEN "y" ELSE "x"]],
      [data |-> [c \in 0..(IdClasses - 1) |-> <<RawA, RawB>>],
       best |-> [u \in {"a", "b"} |-> IF u = "a" THEN "x" ELSE "y"]],
      [data |-> [c \in 0..(IdClasses - 1) |-> <<RawA, RawB>>],
       best |-> [u \in {"a", "b"} |-> IF u = "a" THEN "x" ELSE "none"]],
      [data |-> [c \in 0..(IdClasses - 1) |->
                    IF c = 0 THEN <<RawZ, RawA>> ELSE IF c = 1 THEN <<RawC>> ELSE <<RawB>>],
       best |-> [u \in {"a", "b"} |-> "y"]],
      [data |-> [c \in 0..(IdClasses - 1) |-> <<RawA, RawB>>],
       best |-> [u \in {"a", "b"} |-> IF u = "a" THEN "none" ELSE "x"]] }

\* data.get('moves', []) of the response for this position
LichessData(w, fen) ==
    IF fen[1] >= MaxPly THEN <<>> ELSE w.data[fen[2] % IdClasses]

Min(a, b) == IF a < b THEN a ELSE b

TotalGames(m) == m.white + m.draws + m.black

Enough(m) == TotalGames(m) >= MIN_GAMES

MoveEntry(m) == [uci |-> m.uci, san |-> m.san, games |-> TotalGames(m)]

\* get_lichess_moves(board, top_n) when the request succeeds
LichessMoves(w, fen, top_n) ==
    LET raw == LichessData(w, fen)
        head == SubSeq(raw, 1, Min(top_n, Len(raw)))
        kept == SelectSeq(head, Enough)
    IN  [k \in 1..Len(kept) |-> MoveEntry(kept[k])]

\* what the request of line 116 meets: an answer of the expected shape, an
\* exception of requests (connection, timeout, HTTP status), or an answer that
\* is JSON of another shape (a move without 'uci', a top level that is no object)
Responses == {"ok", "request_exception", "malformed"}

\* get_lichess_moves: the list returned, whether an exception leaves the
\* function (only requests.exceptions.RequestException is caught), and
\* whether time.sleep ran before the function was left (the finally clause)
GetLichessMoves(w, fen, top_n, response) ==
    [moves |-> IF response = "ok" THEN LichessMoves(w, fen, top_n) ELSE <<>>,
     raises |-> response = "malformed",
     slept |-> TRUE]

\* info['score'].relative.score(...) of the position after the reply, in centipawns
EngineScore(fen) == 25 * fen[2] - 20

San(uci) == CASE uci = "x" -> "X"
              [] uci = "y" -> "Y"
              [] OTHER -> uci

\* score / 100: the evaluation in pawns
Pawns(score) == [num |-> score, den |-> 100]

NoResponse == [uci |-> "none", san |-> "none", evaluation |-> Pawns(0)]

\* board.turn: the starting position is reached by three plies, Black is to
\* move there, and the sides alternate
SideToMove(fen) == IF fen[1] % 2 = 0 THEN "black" ELSE "white"

Opponent(side) == IF side = "white" THEN "black" ELSE "white"

\* the engine's score of a position from the point of view of a side:
\* info['score'].relative is the score for the side to move
ScoreFor(side, fen) ==
    IF side = SideToMove(fen) THEN EngineScore(fen) ELSE 0 - EngineScore(fen)

\* get_best_response without the negation of line 166
GetBestResponseUnflipped(w, fen, candidate) ==
    LET reply == w.best[candidate]
    IN  IF reply = "none"
        THEN NoResponse
        ELSE [uci |-> reply, san |-> San(reply),
              evaluation |-> Pawns(EngineScore(Push(Push(fen, candidate), reply)))]

\* get_best_response(temp_board): the reply to the position after the
\* candidate move, with the score of the position after the reply negated
GetBestResponse(w, fen, candidate) ==
    LET reply == w.best[candidate]
    IN  IF reply = "none"
        THEN NoResponse
        ELSE [uci |-> reply, san |-> San(reply),
              evaluation |-> Pawns(0 - EngineScore(Push(Push(fen, candidate), reply)))]

----------------------------------------------------------------------------
(* The checkpoint *)

CacheKey(fen, move_uci) == <<fen, "|", move_uci>>

RECURSIVE ListOf(_)
\* list(a_set)
ListOf(S) == IF S = {} THEN <<>>
             ELSE LET x == CHOOSE y \in S : TRUE IN <<x>> \o ListOf(S \ {x})

\* set(a_list)
SetOf(s) == {s[k] : k \in DOMAIN s}

EmptyCache == [k \in {} |-> NoResponse]

\* the values __init__ gives the analyzer
InitState == [analyzed_positions |-> EmptyCache, fully_explored_fens |-> {},
              variation_counter |-> 0, all_variations |-> <<>>]

Memory == [analyzed_positions |-> analyzed_positions,
           fully_explored_fens |-> fully_explored_fens,
           variation_counter |-> variation_counter,
           all_variations |-> all_variations]

\* a document without the explored positions
ProgressWithoutExplored(m) ==
    [analyzed_positions |-> m.analyzed_positions,
     fully_explored_fens |-> <<>>,
     variation_counter |-> m.variation_counter,
     all_variations |-> m.all_variations]

\* the document save_progress dumps
ProgressData(m) == [analyzed_positions |-> m.analyzed_positions,
                    fully_explored_fens |-> ListOf(m.fully_explored_fens),
                    variation_counter |-> m.variation_counter,
                    all_variations |-> m.all_variations]

NoData == ProgressData(InitState)

Missing == [kind |-> "missing", data |-> NoData]
\* opened with "w" and not yet written to the end: not a JSON document
Partial == [kind |-> "partial", data |-> NoData]
\* a save that writes the document of the empty state
WrittenEmpty(m) == [kind |-> "json", data |-> NoData]

Written(m) == [kind |-> "json", data |-> ProgressData(m)]

\* load_progress that does not restore fully_explored_fens
LoadWithoutExplored(file, m) ==
    IF file.kind = "json"
    THEN [analyzed_positions |-> file.data.analyzed_positions,
          fully_explored_fens |-> m.fully_explored_fens,
          variation_counter |-> file.data.variation_counter,
          all_variations |-> file.data.all_variations]
    ELSE m

\* load_progress that does not restore variation_counter
LoadWithoutCounter(file, m) ==
    IF file.kind = "json"
    THEN [analyzed_positions |-> file.data.analyzed_positions,
          fully_explored_fens |-> SetOf(file.data.fully_explored_fens),
          variation_counter |-> m.variation_counter,
          all_variations |-> file.data.all_variations]
    ELSE m

\* load_progress: what the analyzer holds after it, starting from state m
LoadProgress(file, m) ==
    IF file.kind = "missing" THEN m
    ELSE IF file.kind = "partial" THEN m
    ELSE [analyzed_positions |-> file.data.analyzed_positions,
          fully_explored_fens |-> SetOf(file.data.fully_explored_fens),
          variation_counter |-> file.data.variation_counter,
          all_variations |-> file.data.all_variations]

----------------------------------------------------------------------------
(* Line records *)

RECURSIVE PathTokens(_, _, _)
\* get_move_path_string: "N. san" for a move at an even index, "san" otherwise
PathTokens(moves, k, move_number) ==
    IF k > Len(moves) THEN <<>>
    ELSE IF (k - 1) % 2 = 0
         THEN <<move_number, moves[k]>> \o PathTokens(moves, k + 1, move_number + 1)
         ELSE <<moves[k]>> \o PathTokens(moves, k + 1, move_number)

GetMovePathString(moves) == PathTokens(moves, 1, 1)

\* an entry that does not carry the number it was given
VariationUnnumbered(number, complete_history, best_response, move_data) ==
    [number |-> 0,
     moves |-> GetMovePathString(complete_history),
     evaluation |-> best_response.evaluation,
     games |-> move_data.games,
     depth |-> Len(complete_history)]

\* the entry appended to all_variations
Variation(number, complete_history, best_response, move_data) ==
    [number |-> number,
     moves |-> GetMovePathString(complete_history),
     evaluation |-> best_response.evaluation,
     games |-> move_data.games,
     depth |-> Len(complete_history)]

----------------------------------------------------------------------------
(* Frames of analyze_position_recursive *)

Frame(fen, history) ==
    [fen |-> fen, move_history |-> history, pc |-> "enter",
     lichess_moves |-> <<>>, i |-> 1, response |-> NoResponse, after |-> "return"]

Top == stack[Len(stack)]

Running == mainpc = "analyze" /\ stack # <<>>

At(pc) == Running /\ Top.pc = pc

SetTop(f) == [stack EXCEPT ![Len(stack)] = f]

\* a return after which the caller takes up the same candidate again
ReturnSameCandidate ==
    IF Len(stack) = 1 THEN <<>>
    ELSE [SubSeq(stack, 1, Len(stack) - 1) EXCEPT
            ![Len(stack) - 1] = [@ EXCEPT !.pc = "loop"]]

\* the return of the innermost call: its caller goes on with the next candidate
Return ==
    IF Len(stack) = 1 THEN <<>>
    ELSE [SubSeq(stack, 1, Len(stack) - 1) EXCEPT
            ![Len(stack) - 1] = [@ EXCEPT !.i = @ + 1, !.pc = "loop"]]

\* no descent: the loop goes on with the next candidate of the same position
RecurseNowhere(f, response) == SetTop([f EXCEPT !.i = @ + 1, !.pc = "loop"])

\* the recursive call on the position after candidate move and reply
Recurse(f, response) ==
    LET move_data == f.lichess_moves[f.i]
        new_history == Append(f.move_history, move_data.san)
        complete_history == Append(new_history, response.san)
        board == Push(Push(f.fen, move_data.uci), response.uci)
    IN  Append(SetTop([f EXCEPT !.pc = "wait"]), Frame(board, complete_history))

\* the check of line 241 left out
NeverExplored(fen, explored) == FALSE

IsFullyExplored(fen, explored) == fen \in explored

\* the check of line 262 left out
NeverCached(key, cache) == FALSE

IsCached(key, cache) == key \in DOMAIN cache

----------------------------------------------------------------------------
(* Histories *)

NewRun(loaded, from_complete) ==
    [oracle |-> {}, eval |-> {}, eval_twice |-> {}, explore |-> {Root},
     explored_with |-> {}, loaded |-> loaded, from_complete |-> from_complete,
     eval_none |-> {}, prev_none |-> {}, slept |-> {},
     popen |-> 0, quit |-> 0, error |-> "none"]

NoHistory == [on |-> FALSE, eval |-> {}, explored |-> {}, stored |-> EmptyCache,
              failed_on |-> FALSE, failed_saved |-> {}]

Keep(h, new) == IF h.on THEN new ELSE h

----------------------------------------------------------------------------
(* The state after construction: no process has run, no progress.json *)

Start(first_phase, history) ==
    /\ world \in Worlds
    /\ mainpc = "init"
    /\ stack = <<>>
    /\ analyzed_positions = InitState.analyzed_positions
    /\ fully_explored_fens = InitState.fully_explored_fens
    /\ variation_counter = InitState.variation_counter
    /\ all_variations = InitState.all_variations
    /\ progress_file = Missing
    /\ runs = 0
    /\ failures = 0
    /\ phase = first_phase
    /\ refFinal = InitState
    /\ h_run = NewRun(InitState, FALSE)
    /\ h_ever = history

Init == Start("live", NoHistory)

SetMemory(m) ==
    /\ analyzed_positions' = m.analyzed_positions
    /\ fully_explored_fens' = m.fully_explored_fens
    /\ variation_counter' = m.variation_counter
    /\ all_variations' = m.all_variations

\* main: a new process; __init__, __enter__ (the engine is started),
\* analyze_position: load_progress and the top-level call of
\* analyze_position_recursive
StartRun ==
    /\ mainpc \in {"init", "done", "killed", "failed"}
    /\ phase = "ref" => mainpc = "init"
    /\ runs < MaxRuns
    /\ LET m == LoadProgress(progress_file, InitState)
       IN  /\ SetMemory(m)
           /\ h_run' = [NewRun(m, mainpc = "done") EXCEPT
                          !.prev_none = IF mainpc = "done" THEN h_run.eval_none ELSE {},
                          !.popen = 1]
    /\ stack' = <<Frame(Root, RootHistory)>>
    /\ mainpc' = "analyze"
    /\ runs' = runs + 1
    /\ UNCHANGED <<world, progress_file, failures, phase, refFinal, h_ever>>

\* lines 240-243: the position is fully explored, skip it entirely
EnterSkip ==
    /\ At("enter")
    /\ IsFullyExplored(Top.fen, fully_explored_fens)
    /\ stack' = Return
    /\ UNCHANGED <<world, mainpc, memory, progress_file, runs, failures,
                   phase, refFinal, h_run, h_ever>>

\* line 247: the request to Lichess is issued
EnterQuery ==
    /\ At("enter")
    /\ ~IsFullyExplored(Top.fen, fully_explored_fens)
    /\ stack' = SetTop([Top EXCEPT !.pc = "oracle"])
    /\ h_run' = [h_run EXCEPT !.oracle = @ \cup {Top.fen}]
    /\ UNCHANGED <<world, mainpc, memory, progress_file, runs, failures,
                   phase, refFinal, h_ever>>

\* the history when frame f goes on: if f waits for get_lichess_moves, the
\* function is left now, after its time.sleep
Slept(f) ==
    IF f.pc = "oracle" /\ GetLichessMoves(world, f.fen, TOP_N, "ok").slept
    THEN [h_run EXCEPT !.slept = @ \cup {f.fen}]
    ELSE h_run

\* lines 251 and 342: self.fully_explored_fens.add(current_fen), save_progress next
MarkExplored(f) ==
    /\ fully_explored_fens' = fully_explored_fens \cup {f.fen}
    /\ stack' = SetTop([f EXCEPT !.pc = "save", !.after = "return"])
    /\ h_run' = [Slept(f) EXCEPT !.explored_with =
                    {k \in @ : k[1] # f.fen} \cup
                    {CacheKey(f.fen, f.lichess_moves[k].uci) : k \in DOMAIN f.lichess_moves}]
    /\ h_ever' = Keep(h_ever, [h_ever EXCEPT !.explored = @ \cup {f.fen}])

\* a base case that returns without marking the position
BaseCaseWithoutMark(f) ==
    /\ stack' = SetTop([f EXCEPT !.lichess_moves = <<>>, !.pc = "save", !.after = "return"])
    /\ UNCHANGED <<world, mainpc, memory, progress_file, runs, phase, refFinal,
                   h_run, h_ever>>

\* lines 249-253: get_lichess_moves returned an empty list
BaseCase(f) ==
    /\ MarkExplored([f EXCEPT !.lichess_moves = <<>>])
    /\ UNCHANGED <<world, mainpc, analyzed_positions, variation_counter,
                   all_variations, progress_file, runs, phase, refFinal>>

\* the request succeeded and no move has enough games
OracleNoMoves ==
    /\ At("oracle")
    /\ GetLichessMoves(world, Top.fen, TOP_N, "ok").moves = <<>>
    /\ BaseCase(Top)
    /\ UNCHANGED failures

\* lines 137-139: the request raised, get_lichess_moves returns []
OracleFails ==
    /\ At("oracle")
    /\ failures < MaxOracleFailures
    /\ GetLichessMoves(world, Top.fen, TOP_N, "request_exception").moves = <<>>
    /\ ~GetLichessMoves(world, Top.fen, TOP_N, "request_exception").raises
    /\ failures' = failures + 1
    /\ BaseCase(Top)

\* the request succeeded with moves of enough games: the loop of line 258 starts
OracleMoves ==
    /\ At("oracle")
    /\ GetLichessMoves(world, Top.fen, TOP_N, "ok").moves # <<>>
    /\ stack' = SetTop([Top EXCEPT
                          !.lichess_moves = GetLichessMoves(world, Top.fen, TOP_N, "ok").moves,
                          !.i = 1, !.pc = "loop"])
    /\ h_run' = Slept(Top)
    /\ UNCHANGED <<world, mainpc, memory, progress_file, runs, failures,
                   phase, refFinal, h_ever>>

\* the position is marked when the loop reaches its last candidate
LoopDoneEarly ==
    /\ At("loop")
    /\ Top.i = Len(Top.lichess_moves)
    /\ MarkExplored(Top)
    /\ UNCHANGED <<world, mainpc, analyzed_positions, variation_counter,
                   all_variations, progress_file, runs, failures, phase, refFinal>>

\* lines 341-343: the loop is over
LoopDone ==
    /\ At("loop")
    /\ Top.i > Len(Top.lichess_moves)
    /\ MarkExplored(Top)
    /\ UNCHANGED <<world, mainpc, analyzed_positions, variation_counter,
                   all_variations, progress_file, runs, failures, phase, refFinal>>

CurrentKey(f) == CacheKey(f.fen, f.lichess_moves[f.i].uci)

\* a cache hit that goes on with the next candidate without the recursive call
CachedWithoutRecursion(f, cache) == SetTop([f EXCEPT !.i = @ + 1])

\* the frames after the cache hit of lines 262-279
CachedStep(f, cache) == Recurse(f, cache[CurrentKey(f)])

\* a cache hit that records the cached line as a new variation
LoopCachedRecording ==
    /\ At("loop")
    /\ Top.i <= Len(Top.lichess_moves)
    /\ IsCached(CurrentKey(Top), analyzed_positions)
    /\ stack' = CachedStep(Top, analyzed_positions)
    /\ h_run' = [h_run EXCEPT !.explore = @ \cup {stack'[Len(stack')].fen}]
    /\ variation_counter' = variation_counter + 1
    /\ all_variations' = Append(all_variations,
           Variation(variation_counter + 1, stack'[Len(stack')].move_history,
                     analyzed_positions[CurrentKey(Top)], Top.lichess_moves[Top.i]))
    /\ UNCHANGED <<world, mainpc, analyzed_positions, fully_explored_fens, progress_file,
                   runs, failures, phase, refFinal, h_ever>>

\* lines 262-279: the pair is in the cache, recurse below the cached reply
LoopCached ==
    /\ At("loop")
    /\ Top.i <= Len(Top.lichess_moves)
    /\ IsCached(CurrentKey(Top), analyzed_positions)
    /\ stack' = CachedStep(Top, analyzed_positions)
    /\ h_run' = [h_run EXCEPT !.explore = @ \cup {stack'[Len(stack')].fen}]
    /\ UNCHANGED <<world, mainpc, memory, progress_file, runs, failures,
                   phase, refFinal, h_ever>>

\* lines 285-291: the candidate move cannot be made, continue
LoopBadMove ==
    /\ At("loop")
    /\ Top.i <= Len(Top.lichess_moves)
    /\ ~IsCached(CurrentKey(Top), analyzed_positions)
    /\ FromUciRaises(Top.lichess_moves[Top.i].uci)
    /\ stack' = SetTop([Top EXCEPT !.i = @ + 1])
    /\ UNCHANGED <<world, mainpc, memory, progress_file, runs, failures,
                   phase, refFinal, h_run, h_ever>>

\* line 295: get_best_response is called
LoopEvaluate ==
    /\ At("loop")
    /\ Top.i <= Len(Top.lichess_moves)
    /\ ~IsCached(CurrentKey(Top), analyzed_positions)
    /\ ~FromUciRaises(Top.lichess_moves[Top.i].uci)
    /\ stack' = SetTop([Top EXCEPT !.pc = "eval"])
    /\ h_run' = [h_run EXCEPT
                   !.eval = @ \cup {CurrentKey(Top)},
                   !.eval_twice = @ \cup ({CurrentKey(Top)} \cap h_run.eval)]
    /\ h_ever' = Keep(h_ever, [h_ever EXCEPT !.eval = @ \cup {CurrentKey(Top)}])
    /\ UNCHANGED <<world, mainpc, memory, progress_file, runs, failures,
                   phase, refFinal>>

\* a store that drops the other entries of the cache
StoreAlone(cache, key, r) ==
    [k \in {key} |-> [uci |-> r.uci, san |-> r.san, evaluation |-> r.evaluation]]

\* self.analyzed_positions[cache_key] = {...}
Store(cache, key, r) ==
    [k \in DOMAIN cache \cup {key} |->
        IF k = key THEN [uci |-> r.uci, san |-> r.san, evaluation |-> r.evaluation]
        ELSE cache[k]]

\* the value first stored for each key, in any run
FirstStored(h, key, r) ==
    IF key \in DOMAIN h.stored THEN h ELSE [h EXCEPT !.stored = Store(@, key, r)]

\* an evaluator failure that is memoized: the missing reply is put in the cache
EvalNoneMemoized ==
    /\ At("eval")
    /\ GetBestResponse(world, Top.fen, Top.lichess_moves[Top.i].uci) = NoResponse
    /\ analyzed_positions' = Store(analyzed_positions, CurrentKey(Top), NoResponse)
    /\ stack' = SetTop([Top EXCEPT !.i = @ + 1, !.pc = "loop"])
    /\ h_run' = [h_run EXCEPT !.eval_none = @ \cup {CurrentKey(Top)}]
    /\ UNCHANGED <<world, mainpc, fully_explored_fens, variation_counter, all_variations,
                   progress_file, runs, failures, phase, refFinal, h_ever>>

\* lines 338-339: no best response
EvalNone ==
    /\ At("eval")
    /\ GetBestResponse(world, Top.fen, Top.lichess_moves[Top.i].uci) = NoResponse
    /\ stack' = SetTop([Top EXCEPT !.i = @ + 1, !.pc = "loop"])
    /\ h_run' = [h_run EXCEPT !.eval_none = @ \cup {CurrentKey(Top)}]
    /\ UNCHANGED <<world, mainpc, memory, progress_file, runs, failures,
                   phase, refFinal, h_ever>>

\* a result that is cached and recorded without advancing the counter
EvalStoreUncounted ==
    /\ At("eval")
    /\ LET f == Top
           move_data == f.lichess_moves[f.i]
           best_response == GetBestResponse(world, f.fen, move_data.uci)
           complete_history == Append(Append(f.move_history, move_data.san),
                                      best_response.san)
       IN  /\ best_response # NoResponse
           /\ analyzed_positions' = Store(analyzed_positions, CurrentKey(f), best_response)
           /\ all_variations' = Append(all_variations,
                  Variation(variation_counter + 1, complete_history, best_response, move_data))
           /\ stack' = SetTop([f EXCEPT !.pc = "save", !.after = "recurse",
                                        !.response = best_response])
           /\ h_ever' = Keep(h_ever, FirstStored(h_ever, CurrentKey(f), best_response))
    /\ UNCHANGED <<world, mainpc, fully_explored_fens, variation_counter, progress_file,
                   runs, failures, phase, refFinal, h_run>>

\* lines 297-330: cache the result, count and record the variation (the PGN
\* text of lines 312-321 goes to a file of its own and is no part of the state)
EvalStore ==
    /\ At("eval")
    /\ LET f == Top
           move_data == f.lichess_moves[f.i]
           best_response == GetBestResponse(world, f.fen, move_data.uci)
           complete_history == Append(Append(f.move_history, move_data.san),
                                      best_response.san)
       IN  /\ best_response # NoResponse
           /\ analyzed_positions' = Store(analyzed_positions, CurrentKey(f), best_response)
           /\ variation_counter' = variation_counter + 1
           /\ all_variations' = Append(all_variations,
                  Variation(variation_counter + 1, complete_history, best_response, move_data))
           /\ stack' = SetTop([f EXCEPT !.pc = "save", !.after = "recurse",
                                        !.response = best_response])
           /\ h_ever' = Keep(h_ever, FirstStored(h_ever, CurrentKey(f), best_response))
    /\ UNCHANGED <<world, mainpc, fully_explored_fens, progress_file, runs, failures,
                   phase, refFinal, h_run>>

\* line 78: open(progress_file, "w") truncates the file
SaveOpen ==
    /\ At("save")
    /\ progress_file' = Partial
    /\ stack' = SetTop([Top EXCEPT !.pc = "write"])
    /\ UNCHANGED <<world, mainpc, memory, runs, failures, phase, refFinal, h_run, h_ever>>

\* the request for the position of frame f failed: Lichess has moves with
\* enough games for it and get_lichess_moves returned none
FailedHere(f) == f.lichess_moves = <<>> /\ LichessMoves(world, f.fen, TOP_N) # <<>>

\* the positions marked explored after a failed request whose save has ended
FailedSaved(h, f) ==
    IF h.failed_on /\ FailedHere(f) THEN [h EXCEPT !.failed_saved = @ \cup {f.fen}] ELSE h

\* line 79 ends, then the return of line 253 or after line 343
SaveWriteReturn ==
    /\ At("write")
    /\ Top.after = "return"
    /\ progress_file' = Written(Memory)
    /\ stack' = Return
    /\ h_ever' = FailedSaved(h_ever, Top)
    /\ UNCHANGED <<world, mainpc, memory, runs, failures, phase, refFinal, h_run>>

\* line 79 ends, then lines 335-337: recurse below the new reply
SaveWriteRecurse ==
    /\ At("write")
    /\ Top.after = "recurse"
    /\ progress_file' = Written(Memory)
    /\ stack' = Recurse(Top, Top.response)
    /\ h_run' = [h_run EXCEPT !.explore = @ \cup {stack'[Len(stack')].fen}]
    /\ UNCHANGED <<world, mainpc, memory, runs, failures, phase, refFinal, h_ever>>

\* main, line 454: the final save_progress opens the file
FinalSaveOpen ==
    /\ mainpc = "analyze"
    /\ stack = <<>>
    /\ progress_file' = Partial
    /\ mainpc' = "write"
    /\ UNCHANGED <<world, stack, memory, runs, failures, phase, refFinal, h_run, h_ever>>

\* __exit__, called when the with block of main is left, normally or by an
\* exception: self.engine is set, the engine is quit
Exit(h) == IF h.popen > 0 THEN [h EXCEPT !.quit = @ + 1] ELSE h

\* main, line 454: the final save_progress ends, the with block is left and
\* the process ends
FinalSaveWrite ==
    /\ mainpc = "write"
    /\ progress_file' = Written(Memory)
    /\ mainpc' = "done"
    /\ h_run' = Exit(h_run)
    /\ UNCHANGED <<world, stack, memory, runs, failures, phase, refFinal, h_ever>>

\* the process is killed: its memory is gone, progress.json stays as it is
Kill ==
    /\ phase = "live"
    /\ mainpc \in {"analyze", "write"}
    /\ mainpc' = "killed"
    /\ stack' = <<>>
    /\ SetMemory(InitState)
    /\ h_run' = NewRun(InitState, FALSE)
    /\ UNCHANGED <<world, progress_file, runs, failures, phase, refFinal, h_ever>>

Step ==
    \/ StartRun
    \/ EnterSkip
    \/ EnterQuery
    \/ OracleNoMoves
    \/ OracleMoves
    \/ LoopDone
    \/ LoopCached
    \/ LoopBadMove
    \/ LoopEvaluate
    \/ EvalNone
    \/ EvalStore
    \/ SaveOpen
    \/ SaveWriteReturn
    \/ SaveWriteRecurse
    \/ FinalSaveOpen
    \/ FinalSaveWrite
    \/ Kill

Next == Step \/ OracleFails

Spec == Init /\ [][Next]_vars

\* the same program, with the history across runs kept
InitEver == Start("live", [NoHistory EXCEPT !.on = TRUE])

SpecEver == InitEver /\ [][Next]_vars

\* the same program, with the positions kept whose request failed
InitFailed == Start("live", [NoHistory EXCEPT !.failed_on = TRUE])

SpecFailed == InitFailed /\ [][Next]_vars

\* The program when every call to Lichess and to Stockfish returns: as long
\* as the process is not killed, a step of the traversal that can be taken is
\* taken
Traverse ==
    \/ EnterSkip
    \/ EnterQuery
    \/ OracleNoMoves
    \/ OracleMoves
    \/ LoopDone
    \/ LoopCached
    \/ LoopBadMove
    \/ LoopEvaluate
    \/ EvalNone
    \/ EvalStore
    \/ SaveOpen
    \/ SaveWriteReturn
    \/ SaveWriteRecurse

NextLive == StartRun \/ Traverse \/ OracleFails \/ FinalSaveOpen \/ FinalSaveWrite \/ Kill

SpecLive == Init /\ [][NextLive]_vars /\ WF_vars(Traverse)

\* Resume equivalence: first a reference run from no checkpoint, which is
\* never killed and ends; its final state is kept, progress.json is removed,
\* and the same analysis is done again by processes that may be killed.
InitResume == Start("ref", NoHistory)

RefDone ==
    /\ phase = "ref"
    /\ mainpc = "done"
    /\ refFinal' = Memory
    /\ phase' = "live"
    /\ progress_file' = Missing
    /\ mainpc' = "init"
    /\ runs' = 0
    /\ SetMemory(InitState)
    /\ h_run' = NewRun(InitState, FALSE)
    /\ UNCHANGED <<world, stack, failures, h_ever>>

NextResume == Step \/ RefDone

SpecResume == InitResume /\ [][NextResume]_vars

----------------------------------------------------------------------------
(* The same program when calls to its environment raise *)

\* an exception leaves analyze_position_recursive (no call of it is in a try
\* that catches), analyze_position and the with block of main: __exit__ runs
\* and the process ends with the traceback; line 454 is not reached
Raised(h, error) ==
    /\ mainpc' = "failed"
    /\ stack' = <<>>
    /\ h_run' = [Exit(h) EXCEPT !.error = error]

\* __enter__, line 83: popen_uci raises (no such executable); self.engine stays None
EnterPopenRaises ==
    /\ phase = "live"
    /\ mainpc \in {"init", "done", "killed", "failed"}
    /\ runs < MaxRuns
    /\ runs' = runs + 1
    /\ SetMemory(InitState)
    /\ mainpc' = "failed"
    /\ stack' = <<>>
    /\ h_run' = [NewRun(InitState, FALSE) EXCEPT !.error = "popen_uci"]
    /\ UNCHANGED <<world, progress_file, failures, phase, refFinal, h_ever>>

\* __enter__, lines 85-88: the engine is started and configure raises; the
\* with statement does not call __exit__ when __enter__ raises
EnterConfigureRaises ==
    /\ phase = "live"
    /\ mainpc \in {"init", "done", "killed", "failed"}
    /\ runs < MaxRuns
    /\ runs' = runs + 1
    /\ SetMemory(InitState)
    /\ mainpc' = "failed"
    /\ stack' = <<>>
    /\ h_run' = [NewRun(InitState, FALSE) EXCEPT !.popen = 1, !.error = "configure"]
    /\ UNCHANGED <<world, progress_file, failures, phase, refFinal, h_ever>>

\* load_progress, lines 56-57: progress.json exists and open or the decoding
\* of its bytes raises an error that is neither JSONDecodeError nor KeyError
\* (PermissionError, UnicodeDecodeError); only those two are caught at line 67
LoadRaises ==
    /\ phase = "live"
    /\ mainpc \in {"init", "done", "killed", "failed"}
    /\ runs < MaxRuns
    /\ progress_file.kind # "missing"
    /\ runs' = runs + 1
    /\ SetMemory(InitState)
    /\ Raised([NewRun(InitState, FALSE) EXCEPT !.popen = 1], "load_progress")
    /\ UNCHANGED <<world, progress_file, failures, phase, refFinal, h_ever>>

\* get_lichess_moves, lines 118-133: the answer is JSON of another shape and
\* data.get or move_data['uci'] raises; the finally clause runs, the
\* exception is not a RequestException and leaves the function
OracleMalformed ==
    /\ phase = "live"
    /\ At("oracle")
    /\ GetLichessMoves(world, Top.fen, TOP_N, "malformed").raises
    /\ Raised(Slept(Top), "get_lichess_moves")
    /\ UNCHANGED <<world, memory, progress_file, runs, failures, phase, refFinal, h_ever>>

\* lines 299-318: the reply is cached and counted, then writing
\* variation_N.pgn raises (disk full); lines 324-333 are not reached
PgnWriteRaises ==
    /\ phase = "live"
    /\ At("eval")
    /\ LET best_response == GetBestResponse(world, Top.fen, Top.lichess_moves[Top.i].uci)
       IN  /\ best_response # NoResponse
           /\ analyzed_positions' = Store(analyzed_positions, CurrentKey(Top), best_response)
           /\ variation_counter' = variation_counter + 1
           /\ h_ever' = Keep(h_ever, FirstStored(h_ever, CurrentKey(Top), best_response))
    /\ Raised(h_run, "pgn")
    /\ UNCHANGED <<world, fully_explored_fens, all_variations, progress_file, runs,
                   failures, phase, refFinal>>

\* a failure of save_progress that is caught where it is called: the run goes on
SaveOpenRaisesCaught ==
    /\ phase = "live"
    /\ At("save")
    /\ Top.after = "recurse"
    /\ stack' = Recurse(Top, Top.response)
    /\ h_run' = [h_run EXCEPT !.error = "save_progress",
                              !.explore = @ \cup {stack'[Len(stack')].fen}]
    /\ UNCHANGED <<world, mainpc, memory, progress_file, runs, failures, phase,
                   refFinal, h_ever>>

\* save_progress, line 78: open(progress_file, "w") raises (permission); the
\* file stays as it was
SaveOpenRaises ==
    /\ phase = "live"
    /\ At("save") \/ (mainpc = "analyze" /\ stack = <<>>)
    /\ Raised(h_run, "save_progress")
    /\ UNCHANGED <<world, memory, progress_file, runs, failures, phase, refFinal, h_ever>>

\* save_progress, line 79: json.dump raises in the middle of the writing
\* (disk full); the file stays truncated
SaveWriteRaises ==
    /\ phase = "live"
    /\ At("write") \/ mainpc = "write"
    /\ Raised(h_run, "save_progress")
    /\ UNCHANGED <<world, memory, progress_file, runs, failures, phase, refFinal, h_ever>>

\* main, lines 434-451: writing complete_analysis.json or variation_tree.txt raises
SummaryRaises ==
    /\ phase = "live"
    /\ mainpc = "analyze"
    /\ stack = <<>>
    /\ Raised(h_run, "summary")
    /\ UNCHANGED <<world, memory, progress_file, runs, failures, phase, refFinal, h_ever>>

Fault ==
    \/ EnterPopenRaises
    \/ EnterConfigureRaises
    \/ LoadRaises
    \/ OracleMalformed
    \/ PgnWriteRaises
    \/ SaveOpenRaises
    \/ SaveWriteRaises
    \/ SummaryRaises

NextFaults == Next \/ Fault

SpecFaults == Init /\ [][NextFaults]_vars

----------------------------------------------------------------------------
(* The earlier program, src/chesser2.py: the same traversal without cache,
   explored set and progress.json *)

Chesser2MinGames == 1
Chesser2TopN == 10

\* the list built by lines 71-84 of chesser2.py
Chesser2LichessMoves(w, fen, top_n) ==
    LET raw == LichessData(w, fen)
        head == SubSeq(raw, 1, Min(top_n, Len(raw)))
        kept == SelectSeq(head, LAMBDA m : TotalGames(m) >= Chesser2MinGames)
    IN  [k \in 1..Len(kept) |-> MoveEntry(kept[k])]

\* get_lichess_moves of chesser2.py: time.sleep of line 93 comes after the
\* try statement, whose try block and except clause both return
Chesser2GetLichessMoves(w, fen, top_n, response) ==
    [moves |-> IF response = "ok" THEN Chesser2LichessMoves(w, fen, top_n) ELSE <<>>,
     raises |-> response = "malformed",
     slept |-> FALSE]

\* the history when get_lichess_moves of chesser2.py is left
Chesser2Slept(f) ==
    IF Chesser2GetLichessMoves(world, f.fen, Chesser2TopN, "ok").slept
    THEN [h_run EXCEPT !.slept = @ \cup {f.fen}]
    ELSE h_run

\* main of chesser2.py: a new process, __enter__, analyze_position and the
\* top-level call of analyze_position_recursive
Chesser2Start ==
    /\ mainpc \in {"init", "done", "failed"}
    /\ runs < MaxRuns
    /\ runs' = runs + 1
    /\ SetMemory(InitState)
    /\ h_run' = [NewRun(InitState, FALSE) EXCEPT !.popen = 1]
    /\ stack' = <<Frame(Root, RootHistory)>>
    /\ mainpc' = "analyze"
    /\ UNCHANGED <<world, progress_file, failures, phase, refFinal, h_ever>>

\* line 191: the request to Lichess is issued
Chesser2Query ==
    /\ At("enter")
    /\ stack' = SetTop([Top EXCEPT !.pc = "oracle"])
    /\ h_run' = [h_run EXCEPT !.oracle = @ \cup {Top.fen}]
    /\ UNCHANGED <<world, mainpc, memory, progress_file, runs, failures,
                   phase, refFinal, h_ever>>

\* lines 193-195: no move, return
Chesser2OracleNoMoves ==
    /\ At("oracle")
    /\ Chesser2GetLichessMoves(world, Top.fen, Chesser2TopN, "ok").moves = <<>>
    /\ stack' = Return
    /\ h_run' = Chesser2Slept(Top)
    /\ UNCHANGED <<world, mainpc, memory, progress_file, runs, failures,
                   phase, refFinal, h_ever>>

\* lines 88-90: the request raised, the empty list is returned; lines 193-195
Chesser2OracleFails ==
    /\ At("oracle")
    /\ failures < MaxOracleFailures
    /\ failures' = failures + 1
    /\ Chesser2GetLichessMoves(world, Top.fen, Chesser2TopN, "request_exception").moves = <<>>
    /\ ~Chesser2GetLichessMoves(world, Top.fen, Chesser2TopN, "request_exception").raises
    /\ stack' = Return
    /\ h_run' = Chesser2Slept(Top)
    /\ UNCHANGED <<world, mainpc, memory, progress_file, runs, phase, refFinal, h_ever>>

\* lines 69-84: the answer is JSON of another shape; the exception leaves
\* get_lichess_moves, the recursion and the with block of main
Chesser2OracleMalformed ==
    /\ At("oracle")
    /\ failures < MaxOracleFailures
    /\ failures' = failures + 1
    /\ Chesser2GetLichessMoves(world, Top.fen, Chesser2TopN, "malformed").raises
    /\ Raised(Chesser2Slept(Top), "get_lichess_moves")
    /\ UNCHANGED <<world, memory, progress_file, runs, phase, refFinal, h_ever>>

\* line 200: the loop over the moves starts
Chesser2OracleMoves ==
    /\ At("oracle")
    /\ Chesser2GetLichessMoves(world, Top.fen, Chesser2TopN, "ok").moves # <<>>
    /\ stack' = SetTop([Top EXCEPT
                          !.lichess_moves =
                              Chesser2GetLichessMoves(world, Top.fen, Chesser2TopN, "ok").moves,
                          !.i = 1, !.pc = "loop"])
    /\ h_run' = Chesser2Slept(Top)
    /\ UNCHANGED <<world, mainpc, memory, progress_file, runs, failures,
                   phase, refFinal, h_ever>>

\* lines 205-211: the move cannot be made, continue
Chesser2BadMove ==
    /\ At("loop")
    /\ Top.i <= Len(Top.lichess_moves)
    /\ FromUciRaises(Top.lichess_moves[Top.i].uci)
    /\ stack' = SetTop([Top EXCEPT !.i = @ + 1])
    /\ UNCHANGED <<world, mainpc, memory, progress_file, runs, failures,
                   phase, refFinal, h_run, h_ever>>

\* line 215: get_best_response is called
Chesser2Evaluate ==
    /\ At("loop")
    /\ Top.i <= Len(Top.lichess_moves)
    /\ ~FromUciRaises(Top.lichess_moves[Top.i].uci)
    /\ stack' = SetTop([Top EXCEPT !.pc = "eval"])
    /\ h_run' = [h_run EXCEPT !.eval = @ \cup {CurrentKey(Top)}]
    /\ UNCHANGED <<world, mainpc, memory, progress_file, runs, failures,
                   phase, refFinal, h_ever>>

\* lines 248-249: no best response
Chesser2EvalNone ==
    /\ At("eval")
    /\ GetBestResponse(world, Top.fen, Top.lichess_moves[Top.i].uci) = NoResponse
    /\ stack' = SetTop([Top EXCEPT !.i = @ + 1, !.pc = "loop"])
    /\ h_run' = [h_run EXCEPT !.eval_none = @ \cup {CurrentKey(Top)}]
    /\ UNCHANGED <<world, mainpc, memory, progress_file, runs, failures,
                   phase, refFinal, h_ever>>

\* lines 217-247: count and record the variation, recurse below the reply
Chesser2EvalRecurse ==
    /\ At("eval")
    /\ LET f == Top
           move_data == f.lichess_moves[f.i]
           best_response == GetBestResponse(world, f.fen, move_data.uci)
           complete_history == Append(Append(f.move_history, move_data.san),
                                      best_response.san)
       IN  /\ best_response # NoResponse
           /\ variation_counter' = variation_counter + 1
           /\ all_variations' = Append(all_variations,
                  Variation(variation_counter + 1, complete_history, best_response, move_data))
           /\ stack' = Recurse(f, best_response)
    /\ h_run' = [h_run EXCEPT !.explore = @ \cup {stack'[Len(stack')].fen}]
    /\ UNCHANGED <<world, mainpc, analyzed_positions, fully_explored_fens, progress_file,
                   runs, failures, phase, refFinal, h_ever>>

\* the loop of line 200 is over: return
Chesser2LoopDone ==
    /\ At("loop")
    /\ Top.i > Len(Top.lichess_moves)
    /\ stack' = Return
    /\ UNCHANGED <<world, mainpc, memory, progress_file, runs, failures,
                   phase, refFinal, h_run, h_ever>>

\* main, lines 323-360: the summary is written, the with block is left
Chesser2Done ==
    /\ mainpc = "analyze"
    /\ stack = <<>>
    /\ mainpc' = "done"
    /\ h_run' = Exit(h_run)
    /\ UNCHANGED <<world, stack, memory, progress_file, runs, failures,
                   phase, refFinal, h_ever>>

NextChesser2 ==
    \/ Chesser2Start
    \/ Chesser2Query
    \/ Chesser2OracleNoMoves
    \/ Chesser2OracleFails
    \/ Chesser2OracleMalformed
    \/ Chesser2OracleMoves
    \/ Chesser2BadMove
    \/ Chesser2Evaluate
    \/ Chesser2EvalNone
    \/ Chesser2EvalRecurse
    \/ Chesser2LoopDone
    \/ Chesser2Done

SpecChesser2 == Init /\ [][NextChesser2]_vars

----------------------------------------------------------------------------
(* Properties *)

TopNext == stack'[Len(stack')]

RunningNext == mainpc' = "analyze" /\ stack' # <<>>

\* a call to the oracle or to the evaluator is in flight
InFlight == At("oracle") \/ At("eval")

\* C1 as stated: across runs that load the checkpoint and may be killed at
\* any point, get_best_response is invoked at most once per cache key: no
\* call is issued for a key for which one was issued before.
C1_EvaluatedAtMostOnceAcrossRuns ==
    [][(RunningNext /\ TopNext.pc = "eval" /\ ~At("eval"))
          => CurrentKey(TopNext) \notin h_ever.eval]_vars

\* C1 amended: within one run get_best_response is invoked at most once per
\* cache key, and never for a key of the cache that load_progress loaded at
\* the start of the run.
C1_EvaluatedOncePerRunNeverWhenLoaded ==
    /\ h_run.eval_twice = {}
    /\ h_run.eval \cap DOMAIN h_run.loaded.analyzed_positions = {}

\* a resumed run that loaded cached results and has called the evaluator
C1_Witness ==
    /\ runs >= 2
    /\ DOMAIN h_run.loaded.analyzed_positions # {}
    /\ h_run.eval # {}
    /\ h_ever.on

\* C2: resume equivalence.  With a deterministic oracle and evaluator, runs
\* that are killed at any point and resumed from progress.json end in the
\* state in which the one uninterrupted run ended: the same cache, the same
\* explored set, the same variations in the same order with the same numbers.
C2_ResumeEquivalence ==
    (phase = "live" /\ mainpc = "done") => Memory = refFinal

\* a run that resumed from saved variations, added its own and ended
C2_Witness ==
    /\ phase = "live"
    /\ mainpc = "done"
    /\ runs >= 2
    /\ ~h_run.from_complete
    /\ h_run.loaded.all_variations # <<>>
    /\ Len(all_variations) > Len(h_run.loaded.all_variations)

\* C3 as stated: once a position has been put in the explored set, no later
\* call on it, in the same or in a resumed run, has an oracle or evaluator
\* call in flight for it.
C3_NoCallOnceEverExplored ==
    InFlight => Top.fen \notin h_ever.explored

\* C3 amended: within a run the explored set only grows, it holds the
\* positions that load_progress loaded, and a call on a position of the set
\* returns at once: no oracle or evaluator call is in flight for a position
\* of the set.
C3_NoCallWhileExplored ==
    [][/\ (mainpc = "analyze" /\ mainpc' = "analyze")
            => fully_explored_fens \subseteq fully_explored_fens'
       /\ mainpc' = "analyze"
            => h_run'.loaded.fully_explored_fens \subseteq fully_explored_fens'
       /\ (RunningNext /\ TopNext.pc \in {"oracle", "eval"})
            => TopNext.fen \notin fully_explored_fens'
       /\ (At("enter") /\ Top.fen \in fully_explored_fens /\ mainpc' = "analyze")
            => stack' = Return /\ h_run' = h_run]_vars

\* a call below the root on a position that is already in the explored set
C3_Witness ==
    /\ At("enter")
    /\ Len(stack) > 1
    /\ Top.fen \in fully_explored_fens
    /\ h_ever.on

\* C4: whatever is on disk is a complete document, the previous one or the
\* new one, at every point at which the process may crash or the file be read.
C4_CheckpointNeverPartial ==
    progress_file.kind \in {"missing", "json"}

\* C5: whenever an oracle or evaluator call is in flight, every result
\* computed and every position marked so far has been saved: loading
\* progress.json gives the state in memory.
C5_SavedBeforeNextCall ==
    InFlight => LoadProgress(progress_file, InitState) = Memory

\* an evaluator call in flight after results were computed and positions marked
C5_Witness ==
    /\ At("eval")
    /\ all_variations # <<>>
    /\ fully_explored_fens # {}
    /\ Len(all_variations) > Len(h_run.loaded.all_variations)

Distinct(records) ==
    \A j, k \in DOMAIN records :
        j # k => /\ records[j].number # records[k].number
                 /\ records[j].moves # records[k].moves

\* C6: the step taken for a candidate whose key is in the cache calls no
\* evaluator, appends no variation and leaves the cache, the variations and
\* the counter as they are; and no two variations ever share a number or a
\* move path.
C6_CacheHitChangesNothing ==
    [][/\ (/\ At("loop")
            /\ Top.i <= Len(Top.lichess_moves)
            /\ CurrentKey(Top) \in DOMAIN analyzed_positions
            /\ mainpc' = "analyze")
          => /\ UNCHANGED <<analyzed_positions, all_variations, variation_counter>>
             /\ h_run'.eval = h_run.eval
             /\ TopNext.pc # "eval"
       /\ Distinct(all_variations')]_vars

\* a resumed run went past a candidate whose result was loaded from progress.json
C6_Witness ==
    /\ Running
    /\ Len(stack) >= 2
    /\ stack[1].pc = "wait"
    /\ CurrentKey(stack[1]) \in DOMAIN h_run.loaded.analyzed_positions
    /\ all_variations # <<>>

\* the position reached from frame f by its j-th candidate and the reply in the cache
Below(f, j) ==
    Push(Push(f.fen, f.lichess_moves[j].uci),
         analyzed_positions[CacheKey(f.fen, f.lichess_moves[j].uci)].uci)

\* the candidates of frame f that the loop has dealt with
Dealt(f) ==
    {j \in DOMAIN f.lichess_moves : j < f.i \/ (j = f.i /\ f.pc = "wait")}

\* C7: for every candidate the loop has dealt with and for which a reply is
\* available, analyze_position_recursive was called on the position after
\* candidate and reply, whether the reply was cached or newly computed.
C7_RecursesBelowEveryReply ==
    \A n \in DOMAIN stack :
        \A j \in Dealt(stack[n]) :
            CacheKey(stack[n].fen, stack[n].lichess_moves[j].uci) \in DOMAIN analyzed_positions
                => Below(stack[n], j) \in h_run.explore

\* the root loop went past a first candidate with a loaded reply and a second
\* candidate whose reply this run computed
C7_Witness ==
    /\ Running
    /\ stack[1].i = 3
    /\ CacheKey(Root, stack[1].lichess_moves[1].uci) \in DOMAIN h_run.loaded.analyzed_positions
    /\ CacheKey(Root, stack[1].lichess_moves[2].uci) \in h_run.eval
    /\ CacheKey(Root, stack[1].lichess_moves[2].uci) \in DOMAIN analyzed_positions

RootKeys == {k \in DOMAIN analyzed_positions : k[1] = Root}

\* C8 as stated: a run on the checkpoint of a complete run calls neither
\* oracle nor evaluator for the candidates of the root, and queries the
\* oracle for the position after each cached reply.
C8_RerunQueriesBelowCachedReplies ==
    (h_run.from_complete /\ mainpc = "done")
        => /\ Root \notin h_run.oracle
           /\ \A k \in h_run.eval : k[1] # Root
           /\ \A k \in RootKeys :
                 Push(Push(Root, k[3]), analyzed_positions[k].uci) \in h_run.oracle

\* C8 amended: a run on the checkpoint of a complete run calls neither
\* oracle nor evaluator for the candidates of the root and does not recurse
\* below the cached replies: the root is in the explored set and the call
\* on it returns at once.
C8_RerunStopsAtRoot ==
    h_run.from_complete
        => /\ Root \in fully_explored_fens
           /\ Root \notin h_run.oracle
           /\ \A k \in h_run.eval : k[1] # Root
           /\ h_run.explore = {Root}
           /\ \A k \in RootKeys :
                 Push(Push(Root, k[3]), analyzed_positions[k].uci) \notin h_run.oracle

\* a run on the checkpoint of a complete run ended, with replies cached for the root
C8_Witness ==
    /\ h_run.from_complete
    /\ mainpc = "done"
    /\ RootKeys # {}

\* C9: for every position of the explored set, every key of a candidate the
\* oracle returned when the position was marked is in the cache.
C9_ExploredImpliesCached ==
    \A k \in h_run.explored_with :
        k[1] \in fully_explored_fens => k \in DOMAIN analyzed_positions

\* the oracle's answer, success or failure, held no candidate
NoCandidate == LichessMoves(world, Top.fen, TOP_N) = <<>> \/ failures' > failures

\* C10: when the oracle returns no candidate for a position not yet
\* explored, the position is put in the explored set with no evaluator call,
\* no cache write and no variation, and then progress.json is written and the
\* call returns.
C10_BaseCase ==
    [][/\ (At("oracle") /\ NoCandidate /\ mainpc' = "analyze")
          => /\ Top.fen \notin fully_explored_fens
             /\ fully_explored_fens' = fully_explored_fens \cup {Top.fen}
             /\ UNCHANGED <<analyzed_positions, all_variations, variation_counter>>
             /\ h_run'.eval = h_run.eval
             /\ Len(stack') = Len(stack)
             /\ TopNext.pc = "save" /\ TopNext.after = "return"
             /\ TopNext.lichess_moves = <<>>
       /\ (At("save") /\ Top.lichess_moves = <<>> /\ mainpc' = "analyze")
          => /\ UNCHANGED <<memory, h_run>>
             /\ Len(stack') = Len(stack)
             /\ TopNext.pc = "write" /\ TopNext.lichess_moves = <<>>
       /\ (At("write") /\ Top.lichess_moves = <<>> /\ mainpc' = "analyze")
          => /\ UNCHANGED <<memory, h_run>>
             /\ progress_file' = Written(Memory)
             /\ stack' = Return]_vars

\* the base case at a position for which Lichess has moves, none with enough games
C10_Witness ==
    /\ At("write")
    /\ Top.lichess_moves = <<>>
    /\ LichessData(world, Top.fen) # <<>>
    /\ failures = 0
    /\ Top.fen \in fully_explored_fens


\* C11: when get_best_response yields no move for a candidate, the step
\* taken appends no variation, leaves the counter and the cache as they are,
\* makes no recursive call, and the loop goes on with the next candidate;
\* and no key for which the evaluator yielded no move in this run is in the
\* cache.
C11_NoReplySkipsCandidate ==
    [][/\ (/\ At("eval")
            /\ GetBestResponse(world, Top.fen, Top.lichess_moves[Top.i].uci) = NoResponse
            /\ mainpc' = "analyze")
          => /\ UNCHANGED <<analyzed_positions, all_variations, variation_counter,
                            fully_explored_fens>>
             /\ h_run'.explore = h_run.explore
             /\ Len(stack') = Len(stack)
             /\ TopNext = [Top EXCEPT !.i = @ + 1, !.pc = "loop"]
       /\ h_run'.eval_none \cap DOMAIN analyzed_positions' = {}]_vars

\* the evaluator yielded no move for the first candidate, and the loop is at
\* the second
C11_Witness ==
    /\ At("loop")
    /\ Top.i = 2
    /\ Len(Top.lichess_moves) = 2
    /\ CacheKey(Top.fen, Top.lichess_moves[1].uci) \in h_run.eval_none


\* C12: an evaluator failure is not memoized, so a later retry attempts it
\* again: when a run on the checkpoint of a complete run has ended, it has
\* called the evaluator for every key for which the evaluator yielded no
\* move in the complete run.
C12_LaterRunEvaluatesAgain ==
    (h_run.from_complete /\ mainpc = "done") => h_run.prev_none \subseteq h_run.eval

\* C13: a candidate move that cannot be made is skipped, the loop goes on
\* with the next candidate and nothing else changes; and a position is not
\* put in the explored set when one of its candidates was skipped in this way.
C13_BadMoveSkippedNotExplored ==
    [][/\ (/\ At("loop")
            /\ Top.i <= Len(Top.lichess_moves)
            /\ ~IsCached(CurrentKey(Top), analyzed_positions)
            /\ FromUciRaises(Top.lichess_moves[Top.i].uci)
            /\ mainpc' = "analyze")
          => /\ UNCHANGED <<memory, h_run>>
             /\ stack' = SetTop([Top EXCEPT !.i = @ + 1])
       /\ (At("loop") /\ fully_explored_fens' # fully_explored_fens)
          => \A k \in DOMAIN Top.lichess_moves : ~FromUciRaises(Top.lichess_moves[k].uci)]_vars


\* C14: every failure of a Lichess query, an exception of the request or an
\* answer of another shape, makes get_lichess_moves return the empty list:
\* no exception leaves the function and the traversal goes on.
C14_OracleFailureIsEmptyList ==
    [][(At("oracle") /\ (failures' > failures \/ mainpc' = "failed"))
          => /\ mainpc' = "analyze"
             /\ h_run'.error = "none"
             /\ TopNext.lichess_moves = <<>>]_vars

\* C16: the engine is started once per run, at no time more than one engine
\* started by the run is alive, and when the run has ended, normally or by
\* an error in __enter__ or in the traversal, every engine it started was quit
\* exactly once.
C16_EngineReleasedOnEveryExit ==
    /\ h_run.popen <= 1
    /\ h_run.popen - h_run.quit \in {0, 1}
    /\ mainpc \in {"done", "failed"} => h_run.quit = h_run.popen

\* C17: load_progress returns normally whatever progress.json is; when the
\* file is missing, unreadable or no JSON document, the run goes on from the
\* empty state.
C17_LoadNeverFatal ==
    [][(runs' = runs + 1 /\ h_run'.error \notin {"popen_uci", "configure"})
          => /\ h_run'.error # "load_progress"
             /\ mainpc' = "analyze"
             /\ progress_file.kind # "json" => h_run'.loaded = InitState]_vars

\* a failure of save_progress, at the opening or in the writing
SaveFailure == h_run'.error = "save_progress" /\ h_run.error = "none"

\* C18: when save_progress fails the run stops: the step leaves the state
\* in memory and the history of calls as they are and ends all calls of
\* analyze_position_recursive, and every step after a failure is the start of
\* a new process: no oracle query, evaluator call, cache write, explored
\* addition or variation follows in that run.
C18_SaveFailureStopsRun ==
    [][/\ SaveFailure
          => /\ mainpc' = "failed"
             /\ stack' = <<>>
             /\ UNCHANGED memory
             /\ [h_run' EXCEPT !.error = "none", !.quit = 0] = [h_run EXCEPT !.quit = 0]
       /\ h_run.error = "save_progress"
          => /\ mainpc = "failed"
             /\ runs' = runs + 1]_vars

\* save_progress failed after results were recorded and before the root was explored
C18_Witness ==
    /\ mainpc = "failed"
    /\ h_run.error = "save_progress"
    /\ all_variations # <<>>
    /\ Root \notin fully_explored_fens

\* C19: when a run has ended, normally or by an error raised after
\* load_progress other than a failure of the save itself, progress.json holds
\* the state in memory at the end of the run: loading it gives that state.
C19_RunEndsWithStatePersisted ==
    (/\ mainpc \in {"done", "failed"}
     /\ h_run.error \notin {"popen_uci", "configure", "load_progress", "save_progress"})
        => LoadProgress(progress_file, InitState) = Memory


\* C20 as stated: a cache entry once stored is in the cache, with the value
\* first stored, in every later state of the same run and of the runs
\* resumed from the checkpoint.
C20_EntryKeptAcrossRuns ==
    Running => \A k \in DOMAIN h_ever.stored :
                  /\ k \in DOMAIN analyzed_positions
                  /\ analyzed_positions[k] = h_ever.stored[k]

\* C20 amended: within a run no entry of the cache is removed or changed,
\* the entries load_progress loaded at the start of the run included; and an
\* entry stored again, after the process was killed before its save ended,
\* has the value first stored for the key.
C20_EntryKeptWithinRun ==
    [][/\ (mainpc \in {"analyze", "write"} /\ mainpc' \in {"analyze", "write", "done"})
          => \A k \in DOMAIN analyzed_positions :
                /\ k \in DOMAIN analyzed_positions'
                /\ analyzed_positions'[k] = analyzed_positions[k]
       /\ mainpc' \in {"analyze", "write", "done"}
          => \A k \in DOMAIN h_run'.loaded.analyzed_positions :
                /\ k \in DOMAIN analyzed_positions'
                /\ analyzed_positions'[k] = h_run'.loaded.analyzed_positions[k]
       /\ \A k \in DOMAIN analyzed_positions' \cap DOMAIN h_ever'.stored :
             analyzed_positions'[k] = h_ever'.stored[k]]_vars

\* a resumed run that loaded entries and stored a new one after a cache hit
C20_Witness ==
    /\ h_ever.on
    /\ runs >= 2
    /\ mainpc = "analyze"
    /\ DOMAIN h_run.loaded.analyzed_positions # {}
    /\ DOMAIN h_run.loaded.analyzed_positions # DOMAIN analyzed_positions
    /\ DOMAIN h_ever.stored = DOMAIN analyzed_positions


\* the queries of this run that have been answered
Answered == h_run.oracle \ (IF At("oracle") THEN {Top.fen} ELSE {})

\* C15: after every Lichess query, answered or failed, time.sleep has run
\* when get_lichess_moves is left.
C15_DelayAfterEveryQuery ==
    Answered \subseteq h_run.slept


\* the variations carry the numbers 1..n in list order and the counter is n
Sequential(records, counter) ==
    /\ counter = Len(records)
    /\ \A k \in DOMAIN records : records[k].number = k

\* C21 as stated: in every state, across runs resumed from the checkpoint,
\* the variations carry the numbers 1..n in list order, the counter is n, and
\* no variation once appended is removed: the list of a running process holds
\* a variation for every result ever stored.
C21_RecordsKeptAcrossRuns ==
    /\ Sequential(all_variations, variation_counter)
    /\ Running => Len(all_variations) >= Cardinality(DOMAIN h_ever.stored)

\* C21 amended: in every state the variations carry the numbers 1..n in
\* list order and the counter is n; within a run the list only grows at its
\* end, by one variation with the next number, and the variations
\* load_progress loaded at the start of the run stay as its first entries.
C21_RecordsAppendOnlyWithinRun ==
    [][/\ Sequential(all_variations', variation_counter')
       /\ (mainpc \in {"analyze", "write"} /\ mainpc' \in {"analyze", "write", "done"})
          => \/ UNCHANGED <<all_variations, variation_counter>>
             \/ /\ Len(all_variations') = Len(all_variations) + 1
                /\ SubSeq(all_variations', 1, Len(all_variations)) = all_variations
       /\ mainpc' \in {"analyze", "write", "done"}
          => /\ Len(all_variations') >= Len(h_run'.loaded.all_variations)
             /\ SubSeq(all_variations', 1, Len(h_run'.loaded.all_variations))
                    = h_run'.loaded.all_variations]_vars

\* a resumed run that loaded variations and has appended one more
C21_Witness ==
    /\ h_ever.on
    /\ runs >= 2
    /\ mainpc = "analyze"
    /\ h_run.loaded.all_variations # <<>>
    /\ Len(all_variations) = Len(h_run.loaded.all_variations) + 1


\* C22 as stated: all candidates of a position are evaluated before the
\* traversal descends past the first of them: when the evaluator is called for
\* the second candidate of the root, it has not been called in this run for
\* any position below the root.
C22_SiblingsBeforeDescent ==
    (At("eval") /\ Len(stack) = 1 /\ Top.i = 2) => \A k \in h_run.eval : k[1] = Root

\* C22 amended: the traversal is depth-first, candidate by candidate in the
\* order of the oracle: for every active call, the position below each
\* earlier candidate that has a reply is in the explored set, its subtree
\* finished, before the next candidate of the position is dealt with.
C22_SubtreeBeforeNextSibling ==
    \A n \in DOMAIN stack :
        \A j \in DOMAIN stack[n].lichess_moves :
            (/\ j < stack[n].i
             /\ CacheKey(stack[n].fen, stack[n].lichess_moves[j].uci) \in DOMAIN analyzed_positions)
                => Below(stack[n], j) \in fully_explored_fens

\* the evaluator is called for the second candidate of the root after it was
\* called below the reply to the first
C22_Witness ==
    /\ At("eval")
    /\ Len(stack) = 1
    /\ Top.i = 2
    /\ CacheKey(Root, Top.lichess_moves[1].uci) \in DOMAIN analyzed_positions
    /\ \E k \in h_run.eval : k[1] # Root


\* C23: a position with candidates is put in the explored set only by the
\* step after the loop over all its candidates, when every recursive call
\* made for them has returned; no position is in the explored set while a
\* call made for one of its candidates is active.
C23_MarkedAfterLoop ==
    [][/\ \A n \in 1..(Len(stack') - 1) : stack'[n].fen \notin fully_explored_fens'
       /\ (/\ mainpc = "analyze"
            /\ mainpc' = "analyze"
            /\ fully_explored_fens' # fully_explored_fens)
          => /\ Running
             /\ Len(stack') = Len(stack)
             /\ fully_explored_fens' = fully_explored_fens \cup {Top.fen}
             /\ TopNext.lichess_moves # <<>>
                   => /\ At("loop")
                      /\ Top.i > Len(Top.lichess_moves)
                      /\ TopNext.pc = "save"]_vars

\* a position below the root is marked after the call below one of its replies returned
C23_Witness ==
    /\ At("write")
    /\ Len(stack) >= 2
    /\ Top.after = "return"
    /\ Top.lichess_moves # <<>>
    /\ Top.fen \in fully_explored_fens
    /\ \E j \in DOMAIN Top.lichess_moves :
          /\ CacheKey(Top.fen, Top.lichess_moves[j].uci) \in DOMAIN analyzed_positions
          /\ Below(Top, j) \in h_run.explore


\* the position after the candidate of key k and the reply stored for it
AfterReply(cache, k) == Push(Push(k[1], k[3]), cache[k].uci)

\* C24 as stated: the evaluation stored for a key (position, candidate) is
\* the engine's score for the side to move at the position, the side that
\* plays the candidate.
C24_EvaluationForCandidateSide ==
    \A k \in DOMAIN analyzed_positions :
        analyzed_positions[k].evaluation
            = Pawns(ScoreFor(SideToMove(k[1]), AfterReply(analyzed_positions, k)))

\* C24 amended: the evaluation stored for a key (position, candidate) is the
\* negation of the engine's score of the position after the reply, which is
\* relative to the side to move there, the side that played the candidate:
\* it is the score for the side that plays the reply; and the variation
\* appended with the entry carries the same evaluation.
C24_EvaluationForReplySide ==
    [][/\ \A k \in DOMAIN analyzed_positions' :
             /\ SideToMove(AfterReply(analyzed_positions', k)) = SideToMove(k[1])
             /\ analyzed_positions'[k].evaluation
                   = Pawns(0 - EngineScore(AfterReply(analyzed_positions', k)))
             /\ analyzed_positions'[k].evaluation
                   = Pawns(ScoreFor(Opponent(SideToMove(k[1])),
                                    AfterReply(analyzed_positions', k)))
       /\ (At("eval") /\ Len(all_variations') > Len(all_variations))
          => all_variations'[Len(all_variations')].evaluation
                = analyzed_positions'[CurrentKey(Top)].evaluation]_vars

\* the cache holds an evaluation above zero and one below zero, and variations
C24_Witness ==
    /\ \E k \in DOMAIN analyzed_positions : analyzed_positions[k].evaluation.num > 0
    /\ \E k \in DOMAIN analyzed_positions : analyzed_positions[k].evaluation.num < 0
    /\ Len(all_variations) = Cardinality(DOMAIN analyzed_positions)


\* as many cache entries as variations, and the counter is that number
Balanced(cache, records, counter) ==
    /\ Cardinality(DOMAIN cache) = Len(records)
    /\ Len(records) = counter

\* C25: whenever an oracle or evaluator call is in flight, and in every
\* document save_progress has written, the number of cache entries, the
\* number of variations and the counter are equal.
C25_CacheRecordsCounterEqual ==
    /\ InFlight => Balanced(analyzed_positions, all_variations, variation_counter)
    /\ progress_file.kind = "json"
          => Balanced(progress_file.data.analyzed_positions,
                      progress_file.data.all_variations,
                      progress_file.data.variation_counter)

\* an evaluator call in flight in a resumed run that loaded results and added one
C25_Witness ==
    /\ At("eval")
    /\ runs >= 2
    /\ progress_file.kind = "json"
    /\ h_run.loaded.all_variations # <<>>
    /\ Len(all_variations) > Len(h_run.loaded.all_variations)
    /\ Len(progress_file.data.all_variations) = Len(all_variations)


\* C26: a position marked explored after a failed request, once saved, is
\* never queried again: in no later state of this or a later run is an
\* oracle or evaluator call in flight for it.
C26_FailedPositionNeverQueriedAgain ==
    InFlight => Top.fen \notin h_ever.failed_saved


\* the top-level call of analyze_position_recursive has returned
Returned == mainpc = "analyze" /\ stack = <<>>

\* C27: on a finite position graph without cycles, with calls to Lichess and
\* Stockfish that return, the top-level call of analyze_position_recursive
\* returns unless the process is killed, in a first and in a resumed run, and
\* when it has returned every position on which the function was called in
\* the run, the root included, is in the explored set.
C27_TraversalTerminates ==
    /\ Running ~> (Returned \/ mainpc = "killed")
    /\ [](Returned => h_run.explore \subseteq fully_explored_fens)

\* the top-level call has returned in a run that went through several positions
C27_Witness ==
    /\ Returned
    /\ ~h_run.from_complete
    /\ Cardinality(h_run.explore) >= 3
    /\ h_run.explore \subseteq h_run.oracle


\* C28: a run started from the checkpoint of a run that completed issues no
\* oracle query and no evaluator call, appends no variation, and leaves cache,
\* explored set, variations and counter as loaded, in memory and, when it has
\* ended, in progress.json.
C28_RerunIsNoOp ==
    (h_run.from_complete /\ mainpc \in {"analyze", "write", "done"})
        => /\ h_run.oracle = {}
           /\ h_run.eval = {}
           /\ Memory = h_run.loaded
           /\ mainpc = "done" => LoadProgress(progress_file, InitState) = h_run.loaded

\* a run on the checkpoint of a complete run with several variations has ended
C28_Witness ==
    /\ h_run.from_complete
    /\ mainpc = "done"
    /\ Len(all_variations) >= 2
    /\ Cardinality(fully_explored_fens) >= 2
    /\ progress_file = Written(h_run.loaded)

====
